---------------------------- MODULE Spec2Model ----------------------------
(***************************************************************************)
(* Model of dronefly/core/formatters/generic.py: the Markdown formatters   *)
(* for taxon names, taxon name lists (with truncation to a character       *)
(* budget), quality-grade adjectives and observation counts.               *)
(*                                                                         *)
(* Python str values are TLA+ strings; len, concatenation and slicing are  *)
(* Len, \o and SubSeq.  An optional value (None or a str) is a sequence of *)
(* length at most one: << >> is None and <<s>> is the str s.               *)
(*                                                                         *)
(* Every formatter is a pure function.  Each is run by its own             *)
(* specification, whose initial states draw the arguments from bounded     *)
(* sets and whose actions are the steps of the call:                       *)
(*   Spec, FairSpec  format_taxon_names (step by step through fit_names)   *)
(*   NameSpec        format_taxon_name                                     *)
(*   QualitySpec     format_quality_grade                                  *)
(*   ObsSpec         TaxonFormatter.ObsCountFormatter.description          *)
(***************************************************************************)
EXTENDS Integers, Sequences, FiniteSets, TLC

VARIABLES
    pc,           \* position of the call: "call", "for", "while", "join", "done", "raised"
    args,         \* the arguments of the call (a record)
    names,        \* format_taxon_names: the local `names`
    names_fit,    \* fit_names: the local `names_fit`
    idx,          \* fit_names: 1-based position of the `for name in names` loop
    unprocessed,  \* fit_names: the local `unprocessed`
    ret           \* the returned value (<< >> until the call returns)

vars == <<pc, args, names, names_fit, idx, unprocessed, ret>>

-----------------------------------------------------------------------------
(* Bounds of the model *)

MaxTaxa == 3        \* longest list of taxa passed to format_taxon_names
MaxBudget == 24     \* largest max_len
NegBudget == 1      \* max_len ranges down to -NegBudget
MaxTokens == 4      \* most space-separated tokens in a scientific name
MaxGradeTokens == 3 \* most comma-separated tokens in quality_grade
MaxCount == 1234    \* largest observations_count

-----------------------------------------------------------------------------
(* Python values *)

None == << >>
Some(s) == <<s>>

\* Python truthiness of an optional str: None and "" are false.
Truthy(o) == o # None /\ o[1] # ""

\* The i-th character of s, as a one-character string.
Char(s, i) == SubSeq(s, i, i)

\* str.split(sep) for a one-character separator.
RECURSIVE SplitFrom(_, _, _, _)
SplitFrom(s, sep, i, cur) ==
    IF i > Len(s) THEN <<cur>>
    ELSE IF Char(s, i) = sep THEN <<cur>> \o SplitFrom(s, sep, i + 1, "")
    ELSE SplitFrom(s, sep, i + 1, cur \o Char(s, i))

Split(s, sep) == SplitFrom(s, sep, 1, "")

\* delimiter.join(items)
RECURSIVE Join(_, _)
Join(delimiter, items) ==
    IF items = << >> THEN ""
    ELSE IF Len(items) = 1 THEN items[1]
    ELSE items[1] \o delimiter \o Join(delimiter, Tail(items))

\* str.upper() of one character, for the letters that begin a rank.
Upper(c) ==
    CASE c = "k" -> "K" [] c = "f" -> "F" [] c = "g" -> "G"
      [] c = "s" -> "S" [] c = "v" -> "V" [] c = "i" -> "I"
      [] OTHER -> c

\* str.capitalize() of a lower-case word.
Capitalize(s) == IF s = "" THEN "" ELSE Upper(Char(s, 1)) \o SubSeq(s, 2, Len(s))

\* The position of the first "%s" in fmt (0 when there is none).
RECURSIVE PlaceholderFrom(_, _)
PlaceholderFrom(fmt, i) ==
    IF i + 1 > Len(fmt) THEN 0
    ELSE IF SubSeq(fmt, i, i + 1) = "%s" THEN i
    ELSE PlaceholderFrom(fmt, i + 1)

\* fmt % s, for a format holding exactly one %s.
Subst(fmt, s) ==
    LET i == PlaceholderFrom(fmt, 1)
    IN  SubSeq(fmt, 1, i - 1) \o s \o SubSeq(fmt, i + 2, Len(fmt))

\* f"[{link_text}]({url})" if url else link_text
format_link(link_text, url) ==
    IF url # "" THEN "[" \o link_text \o "](" \o url \o ")" ELSE link_text

-----------------------------------------------------------------------------
(* dronefly.core.constants (imported; the tables are not part of            *)
(* generic.py).  A sample of the ranks, with their levels.                  *)

RANK_LEVELS ==
    [r \in {"kingdom", "family", "subfamily", "genus", "subgenus", "species",
            "subspecies", "variety", "form", "infrahybrid"} |->
        CASE r = "kingdom" -> 70
          [] r = "family" -> 30
          [] r = "subfamily" -> 27
          [] r = "genus" -> 20
          [] r = "subgenus" -> 15
          [] r = "species" -> 10
          [] OTHER -> 5]

TRINOMIAL_ABBR ==
    [r \in {"variety", "subspecies", "form"} |->
        CASE r = "variety" -> "var."
          [] r = "subspecies" -> "ssp."
          [] OTHER -> "f."]

TAXON_PRIMARY_RANKS == {"kingdom", "phylum", "class", "order", "family"}

TAXON_LIST_DELIMITER == <<", ", " > ">>

\* " \N{HEAVY EXCLAMATION MARK SYMBOL} Inactive Taxon": the symbol is one
\* character, written "!" here.
InactiveMarker == " ! Inactive Taxon"

-----------------------------------------------------------------------------
(* format_taxon_name *)

\* The name of the first entry of taxon.names whose locale is lang.
LocaleName(taxon, lang) ==
    IF Truthy(lang) /\ taxon.names # << >>
    THEN LET hits == SelectSeq(taxon.names, LAMBDA n : n.locale = lang)
         IN  IF hits # << >> THEN hits[1].name ELSE None
    ELSE None

\* The common name (or matched term) to show in parentheses, or None.
CommonName(taxon, with_term, hierarchy, with_common, lang) ==
    IF with_common
    THEN LET by_locale == LocaleName(taxon, lang)
             preferred_common_name ==
                 IF ~Truthy(by_locale) THEN taxon.preferred_common_name
                 ELSE by_locale
         IN  IF with_term
             THEN IF taxon.matched_term \notin
                        {None, Some(taxon.name), preferred_common_name}
                  THEN taxon.matched_term
                  ELSE preferred_common_name
             ELSE IF hierarchy THEN None ELSE preferred_common_name
    ELSE None

\* A variant of ItalicRank that leaves the genus level out (checks that C4
\* depends on the comparison).
ItalicRankMut(rank_level) == rank_level < RANK_LEVELS["genus"]

\* Whether the name is italicised: genus level and lower.
ItalicRank(rank_level) == rank_level <= RANK_LEVELS["genus"]

\* A variant of Trinomial that does not close and reopen the italics around
\* the abbreviation (checks that C5 depends on the insertion).
TrinomialMut(name, rank) ==
    LET tri == Split(name, " ")
    IN  IF Len(tri) = 3
        THEN tri[1] \o " " \o tri[2] \o " " \o TRINOMIAL_ABBR[rank] \o " " \o tri[3]
        ELSE name

\* The trinomial form of an (already italicised) name, when it has exactly
\* three space-separated parts; otherwise the name unchanged.
Trinomial(name, rank) ==
    LET tri == Split(name, " ")
    IN  IF Len(tri) = 3
        THEN tri[1] \o " " \o tri[2] \o "* " \o TRINOMIAL_ABBR[rank] \o " *" \o tri[3]
        ELSE name

\* The styled scientific name: italics, rank prefix or bold, trinomial.
StyledName(taxon, hierarchy, with_rank) ==
    LET rank == taxon.rank
        rank_level == RANK_LEVELS[rank]
        name == IF ItalicRank(rank_level) THEN "*" \o taxon.name \o "*"
                ELSE taxon.name
    IN  IF rank_level > RANK_LEVELS["species"]
        THEN IF hierarchy
             THEN IF rank \in TAXON_PRIMARY_RANKS
                  THEN "\n> **" \o name \o "**"
                  ELSE name
             ELSE IF with_rank THEN Capitalize(rank) \o " " \o name
             ELSE name
        ELSE IF rank \in DOMAIN TRINOMIAL_ABBR THEN Trinomial(name, rank)
             ELSE name

format_taxon_name(taxon, with_term, hierarchy, with_rank, with_common, lang) ==
    LET common == CommonName(taxon, with_term, hierarchy, with_common, lang)
        name == StyledName(taxon, hierarchy, with_rank)
        full_name == IF Truthy(common) THEN name \o " (" \o common[1] \o ")"
                     ELSE name
    IN  IF ~taxon.is_active THEN full_name \o InactiveMarker ELSE full_name

-----------------------------------------------------------------------------
(* NameSpec: one call of format_taxon_name *)

NameTokens == {"z", "qq"}

\* Scientific names of 1..n tokens joined by single spaces.
RECURSIVE NamesOfTokens(_)
NamesOfTokens(n) ==
    IF n = 1 THEN NameTokens
    ELSE NameTokens \cup
         {s \o " " \o t : s \in NamesOfTokens(n - 1), t \in NameTokens}

SciNames == NamesOfTokens(MaxTokens)

Ranks == {"kingdom", "subfamily", "genus", "subgenus", "species",
          "subspecies", "variety", "infrahybrid"}

Langs == {None, Some("fr")}

LocaleNameLists == {<< >>, <<[locale |-> Some("fr"), name |-> Some("jw")]>>}

Taxa ==
    UNION {[name : {n}, rank : Ranks,
            preferred_common_name : {None, Some("jj")},
            matched_term : {None, Some(n), Some("jj"), Some("ww")},
            names : LocaleNameLists,
            is_active : BOOLEAN] : n \in SciNames}

NameArgs ==
    [taxon : Taxa, with_term : BOOLEAN, hierarchy : BOOLEAN,
     with_rank : BOOLEAN, with_common : BOOLEAN, lang : Langs]

Idle ==
    /\ names = << >>
    /\ names_fit = << >>
    /\ idx = 0
    /\ unprocessed = 0
    /\ ret = None

NameInit ==
    /\ pc = "call"
    /\ args \in NameArgs
    /\ Idle

FormatTaxonName ==
    /\ pc = "call"
    /\ ret' = Some(format_taxon_name(args.taxon, args.with_term, args.hierarchy,
                                     args.with_rank, args.with_common, args.lang))
    /\ pc' = "done"
    /\ UNCHANGED <<args, names, names_fit, idx, unprocessed>>

NameNext == FormatTaxonName

NameSpec == NameInit /\ [][NameNext]_vars

-----------------------------------------------------------------------------
(* format_taxon_names, with its inner fit_names *)

\* The taxa that lists are drawn from: a species, a kingdom with a common
\* name, a matched term and a French name, and an inactive variety with a
\* three-part name.
TaxaPool ==
    {[name |-> "z", rank |-> "species", preferred_common_name |-> None,
      matched_term |-> None, names |-> << >>, is_active |-> TRUE],
     [name |-> "qq", rank |-> "kingdom", preferred_common_name |-> Some("jj"),
      matched_term |-> Some("ww"),
      names |-> <<[locale |-> Some("fr"), name |-> Some("jw")]>>,
      is_active |-> TRUE],
     [name |-> "z qq z", rank |-> "variety", preferred_common_name |-> None,
      matched_term |-> None, names |-> << >>, is_active |-> FALSE]}

TaxaLists == UNION {[1..n -> TaxaPool] : n \in 0..MaxTaxa}

NamesFormats == {"%s", "in: %s"}

NamesArgs(budgets) ==
    [taxa : TaxaLists, with_term : BOOLEAN, names_format : NamesFormats,
     max_len : budgets, hierarchy : BOOLEAN, lang : Langs]

\* TAXON_LIST_DELIMITER[int(hierarchy)]
Delimiter(hierarchy) == TAXON_LIST_DELIMITER[IF hierarchy THEN 2 ELSE 1]

\* [format_taxon_name(taxon, with_term=..., hierarchy=..., lang=...) for taxon in taxa]
FormattedNames(a) ==
    [i \in 1..Len(a.taxa) |->
        format_taxon_name(a.taxa[i], a.with_term, a.hierarchy, TRUE, TRUE, a.lang)]

\* A variant of Bounded that enters fit_names for every max_len (checks
\* that C3 depends on the test).
BoundedMut(max_len) == TRUE

\* `if max_len:`
Bounded(max_len) == max_len # 0

\* available_len = max_len - (len(names_format) - 2)
AvailableLen(a) == a.max_len - (Len(a.names_format) - 2)

\* more(count): "and %d more" % count
more(count) == "and " \o ToString(count) \o " more"

\* sum(len(item) + len(delimiter) for item in names_fit)
RECURSIVE UsedLen(_, _)
UsedLen(fit, delimiter) ==
    IF fit = << >> THEN 0
    ELSE Len(Head(fit)) + Len(delimiter) + UsedLen(Tail(fit), delimiter)

formatted_len(fit, delimiter, name) == UsedLen(fit, delimiter) + Len(name)

overflow(a, fit, name) ==
    formatted_len(fit, Delimiter(a.hierarchy), name) > AvailableLen(a)

\* A variant of Unprocessed that leaves the overflowing name out of the
\* count (checks that C8 depends on the count).
UnprocessedMut(ns, fit) == Len(ns) - Len(fit) - 1

\* unprocessed = len(names) - len(names_fit)
Unprocessed(ns, fit) == Len(ns) - Len(fit)

\* A variant of DropLast that removes nothing (checks that C9 depends on
\* the deletion).
DropLastMut(fit) == fit

\* del names_fit[-1], on a list that is not empty
DropLast(fit) == SubSeq(fit, 1, Len(fit) - 1)

\* max_len is 0 (unbounded), positive, or negative.
Init ==
    /\ pc = "call"
    /\ \/ args \in NamesArgs(0..MaxBudget)
       \/ args \in NamesArgs((0 - NegBudget)..(0 - 1))
    /\ Idle

\* Lines 170-175 and 203-204: format every taxon; enter fit_names when
\* max_len is not zero.
FormatNames ==
    /\ pc = "call"
    /\ names' = FormattedNames(args)
    /\ pc' = IF Bounded(args.max_len) THEN "for" ELSE "join"
    /\ idx' = IF Bounded(args.max_len) THEN 1 ELSE idx
    /\ UNCHANGED <<args, names_fit, unprocessed, ret>>

\* for name in names: the name fits and is appended.
ForAccept ==
    /\ pc = "for"
    /\ idx <= Len(names)
    /\ ~overflow(args, names_fit, names[idx])
    /\ names_fit' = Append(names_fit, names[idx])
    /\ idx' = idx + 1
    /\ UNCHANGED <<pc, args, names, unprocessed, ret>>

\* for name in names: the name overflows; count the unprocessed names.
ForOverflow ==
    /\ pc = "for"
    /\ idx <= Len(names)
    /\ overflow(args, names_fit, names[idx])
    /\ unprocessed' = Unprocessed(names, names_fit)
    /\ pc' = "while"
    /\ UNCHANGED <<args, names, names_fit, idx, ret>>

\* The for loop ran out of names: fit_names returns names_fit, which
\* format_taxon_names assigns to names.
ForExhausted ==
    /\ pc = "for"
    /\ idx > Len(names)
    /\ names' = names_fit
    /\ pc' = "join"
    /\ UNCHANGED <<args, names_fit, idx, unprocessed, ret>>

\* while overflow(more(unprocessed)): count one more and delete the last
\* accepted name.
WhileShrink ==
    /\ pc = "while"
    /\ overflow(args, names_fit, more(unprocessed))
    /\ names_fit # << >>
    /\ unprocessed' = unprocessed + 1
    /\ names_fit' = DropLast(names_fit)
    /\ UNCHANGED <<pc, args, names, idx, ret>>

\* The same, with no accepted name left: del names_fit[-1] raises IndexError.
WhileRaise ==
    /\ pc = "while"
    /\ overflow(args, names_fit, more(unprocessed))
    /\ names_fit = << >>
    /\ unprocessed' = unprocessed + 1
    /\ pc' = "raised"
    /\ UNCHANGED <<args, names, names_fit, idx, ret>>

\* The placeholder fits: append it, break, return names_fit.
WhileExit ==
    /\ pc = "while"
    /\ ~overflow(args, names_fit, more(unprocessed))
    /\ names_fit' = Append(names_fit, more(unprocessed))
    /\ names' = names_fit'
    /\ pc' = "join"
    /\ UNCHANGED <<args, idx, unprocessed, ret>>

\* return names_format % delimiter.join(names)
Return ==
    /\ pc = "join"
    /\ ret' = Some(Subst(args.names_format, Join(Delimiter(args.hierarchy), names)))
    /\ pc' = "done"
    /\ UNCHANGED <<args, names, names_fit, idx, unprocessed>>

Next ==
    \/ FormatNames
    \/ ForAccept
    \/ ForOverflow
    \/ ForExhausted
    \/ WhileShrink
    \/ WhileRaise
    \/ WhileExit
    \/ Return

Spec == Init /\ [][Next]_vars

\* The call is one sequential computation: a step that can be taken is taken.
FairSpec == Spec /\ WF_vars(Next)

-----------------------------------------------------------------------------
(* format_quality_grade *)

\* (options.get("quality_grade") or "").split(",")
GradeTokensOf(options) ==
    Split(IF Truthy(options.quality_grade) THEN options.quality_grade[1] ELSE "",
          ",")

InSeq(x, seq) == \E i \in 1..Len(seq) : seq[i] = x

\* The locals research and needsid after lines 316-323; bound is FALSE when
\* neither assignment ran, so that the names are unbound.
GradeFlags(options) ==
    LET quality_grade == GradeTokensOf(options)
        verifiable == options.verifiable
        assigned == ~InSeq("any", quality_grade)
        override == Truthy(verifiable) /\ verifiable[1] \in {"true", ""}
    IN  [bound |-> assigned \/ override,
         research |-> override \/ (assigned /\ InSeq("research", quality_grade)),
         needsid |-> override \/ (assigned /\ InSeq("needs_id", quality_grade))]

\* A variant of Adjectives that tests the flags before verifiable == "false"
\* (checks that C6 depends on the order of the tests).
AdjectivesMut(verifiable, flags) ==
    IF ~flags.bound THEN [raised |-> TRUE, value |-> << >>]
    ELSE IF flags.research /\ flags.needsid
    THEN [raised |-> FALSE, value |-> <<"*Verifiable*">>]
    ELSE IF verifiable = Some("false")
    THEN [raised |-> FALSE, value |-> <<"*not Verifiable*">>]
    ELSE [raised |-> FALSE,
          value |-> (IF flags.research THEN <<"*Research Grade*">> ELSE << >>)
                    \o (IF flags.needsid THEN <<"*Needs ID*">> ELSE << >>)]

\* Lines 324-333: the adjectives, or the UnboundLocalError raised by reading
\* research before it was assigned.
Adjectives(verifiable, flags) ==
    IF verifiable = Some("false")
    THEN [raised |-> FALSE, value |-> <<"*not Verifiable*">>]
    ELSE IF ~flags.bound THEN [raised |-> TRUE, value |-> << >>]
    ELSE IF flags.research /\ flags.needsid
    THEN [raised |-> FALSE, value |-> <<"*Verifiable*">>]
    ELSE [raised |-> FALSE,
          value |-> (IF flags.research THEN <<"*Research Grade*">> ELSE << >>)
                    \o (IF flags.needsid THEN <<"*Needs ID*">> ELSE << >>)]

format_quality_grade(options) == Adjectives(options.verifiable, GradeFlags(options))

GradeTokens == {"any", "research", "needs_id", "casual"}

\* quality_grade values: absent, or up to MaxGradeTokens tokens joined by commas.
GradeStrings ==
    {Join(",", ts) : ts \in UNION {[1..n -> GradeTokens] : n \in 0..MaxGradeTokens}}

QualityArgs ==
    [quality_grade : {None} \cup {Some(g) : g \in GradeStrings},
     verifiable : {None, Some(""), Some("true"), Some("false"), Some("maybe")}]

QualityInit ==
    /\ pc = "call"
    /\ args \in QualityArgs
    /\ Idle

\* The call returns its list of adjectives.
FormatQualityGrade ==
    /\ pc = "call"
    /\ ~format_quality_grade(args).raised
    /\ ret' = Some(format_quality_grade(args).value)
    /\ pc' = "done"
    /\ UNCHANGED <<args, names, names_fit, idx, unprocessed>>

\* The call raises UnboundLocalError.
FormatQualityGradeRaise ==
    /\ pc = "call"
    /\ format_quality_grade(args).raised
    /\ pc' = "raised"
    /\ UNCHANGED <<args, names, names_fit, idx, unprocessed, ret>>

QualityNext == FormatQualityGrade \/ FormatQualityGradeRaise

QualitySpec == QualityInit /\ [][QualityNext]_vars

-----------------------------------------------------------------------------
(* TaxonFormatter.ObsCountFormatter *)

\* dronefly.core.formatters.constants.WWW_BASE_URL (imported)
WWW_BASE_URL == "https://www.inaturalist.org"

\* Three digits, zero-padded: a group after a thousands separator.
Pad3(n) ==
    IF n < 10 THEN "00" \o ToString(n)
    ELSE IF n < 100 THEN "0" \o ToString(n)
    ELSE ToString(n)

\* f"{obs_count:,}"
RECURSIVE Thousands(_)
Thousands(n) ==
    IF n < 1000 THEN ToString(n)
    ELSE Thousands(n \div 1000) \o "," \o Pad3(n % 1000)

\* ObsCountFormatter.url
ObsUrl(taxon) == WWW_BASE_URL \o "/observations?taxon_id=" \o ToString(taxon.id)

\* ObsCountFormatter.link
ObsLink(taxon) == format_link(Thousands(taxon.observations_count), ObsUrl(taxon))

\* The counts that the inflect library takes to mean one (its pl_count_one).
PlCountOne == {"1", "a", "an", "one", "each", "every", "this", "that"}

\* p.plural(word, count) of the inflect library, for a regular noun: the
\* word itself when str(count) is in pl_count_one, else its plural.
Plural(word, count) == IF count \in PlCountOne THEN word ELSE word \o "s"

\* ObsCountFormatter.description: count is the link, and is what plural gets.
ObsDescription(taxon) ==
    LET count == ObsLink(taxon)
    IN  count \o " " \o Plural("observation", count)

TaxonIds == {1, 47126}

ObsArgs == [taxon : [id : TaxonIds, observations_count : 0..MaxCount]]

ObsInit ==
    /\ pc = "call"
    /\ args \in ObsArgs
    /\ Idle

Description ==
    /\ pc = "call"
    /\ ret' = Some(ObsDescription(args.taxon))
    /\ pc' = "done"
    /\ UNCHANGED <<args, names, names_fit, idx, unprocessed>>

ObsNext == Description

ObsSpec == ObsInit /\ [][ObsNext]_vars

-----------------------------------------------------------------------------
(* Properties of format_taxon_names (Spec, FairSpec) *)

Returned == pc = "done"
Ended == pc \in {"done", "raised"}

\* Whether s is "and K more" for some K in 1..n.
IsPlaceholder(s, n) == \E k \in 1..n : s = more(k)

\* All the formatted names, joined, fit the budget (no names: nothing to fit).
AllFit(a) ==
    \/ a.taxa = << >>
    \/ Len(Join(Delimiter(a.hierarchy), FormattedNames(a))) <= AvailableLen(a)

\* The names joined from the left, one at a time.
RECURSIVE JoinedUpTo(_, _, _)
JoinedUpTo(items, delimiter, n) ==
    IF n = 0 THEN ""
    ELSE IF n = 1 THEN items[1]
    ELSE JoinedUpTo(items, delimiter, n - 1) \o delimiter \o items[n]

\* C1: whenever format_taxon_names returns with a nonzero max_len, the
\* returned string (names_format with the joined names substituted) is at
\* most max_len characters long, for every list of taxa, in both delimiter
\* modes.
C1_LengthWithinMaxLen ==
    (Returned /\ args.max_len # 0) => Len(ret[1]) <= args.max_len

\* C1, restricted to the lists it holds for: a list of at least one taxon.
C1_NonEmptyWithinMaxLen ==
    (Returned /\ args.max_len # 0 /\ args.taxa # << >>)
        => Len(ret[1]) <= args.max_len

\* C2: with a nonzero max_len for which the formatted names do not all
\* fit, the call always produces a name list whose last entry is
\* "and K more" for some K >= 1, whatever the budget.
C2_AlwaysEndsWithPlaceholder ==
    (Ended /\ args.max_len # 0 /\ ~AllFit(args))
        => /\ Returned
           /\ names # << >>
           /\ IsPlaceholder(names[Len(names)], Len(args.taxa))

\* C3: with max_len = 0 the call never truncates: it returns names_format
\* with its %s replaced by all the formatted names, in input order, joined
\* by the mode's delimiter; fit_names is never entered and no "and K more"
\* is added.
C3_ZeroNeverTruncates ==
    (args.max_len = 0 /\ pc # "call")
        => /\ pc \in {"join", "done"}
           /\ names_fit = << >>
           /\ names = FormattedNames(args)
           /\ \A i \in 1..Len(names) : ~IsPlaceholder(names[i], Len(args.taxa))
           /\ Returned =>
                \E i \in 1..(Len(args.names_format) - 1) :
                    /\ SubSeq(args.names_format, i, i + 1) = "%s"
                    /\ ret[1] = SubSeq(args.names_format, 1, i - 1)
                                \o JoinedUpTo(FormattedNames(args),
                                              Delimiter(args.hierarchy),
                                              Len(args.taxa))
                                \o SubSeq(args.names_format, i + 2,
                                          Len(args.names_format))

\* C3 witness: three names returned with max_len = 0, longer than any budget.
C3_Witness ==
    /\ Returned
    /\ args.max_len = 0
    /\ Len(args.taxa) = 3
    /\ args.taxa[1].rank = "kingdom"
    /\ Len(ret[1]) > 40

\* C8: whenever the call truncates and returns, the name list is the first
\* j formatted names in order (0 <= j < n) followed by exactly one
\* "and K more" with K = n - j, the number of names left out.
C8_PlaceholderCountsOmitted ==
    (Returned /\ args.max_len # 0 /\ names # FormattedNames(args))
        => LET f == FormattedNames(args)
               n == Len(f)
           IN  \E j \in 0..(n - 1) :
                   names = SubSeq(f, 1, j) \o <<more(n - j)>>

\* C8 witness: two names were accepted, the third overflowed, and both
\* accepted names were given up to make room: the list is just "and 3 more".
C8_Witness ==
    /\ Returned
    /\ idx = 3
    /\ names = <<"and 3 more">>

\* C9: the truncate-and-shrink loop terminates for every list and every
\* max_len: each iteration removes one accepted name, it runs at most as
\* many iterations as names were accepted, and with no accepted name left
\* the call ends in a raised error: it neither loops forever nor returns an
\* over-length string.
C9_ShrinkLoopTerminates ==
    /\ [][(pc = "while" /\ pc' = "while")
            => Len(names_fit') = Len(names_fit) - 1]_vars
    /\ [](pc = "while"
            => /\ unprocessed + Len(names_fit) = Len(names)
               /\ (idx - 1) - Len(names_fit) \in 0..(idx - 1))
    /\ [](pc = "raised" => (names_fit = << >> /\ ret = None))
    /\ []((Returned /\ args.max_len # 0 /\ names # FormattedNames(args))
            => Len(ret[1]) <= args.max_len)
    /\ <>Ended

\* C9 witness: a name was accepted and removed again, and the call raised.
C9_Witness ==
    /\ pc = "raised"
    /\ idx = 2
    /\ args.max_len > 0

-----------------------------------------------------------------------------
(* Properties of format_taxon_name (NameSpec) *)

\* s has an asterisk at i that is not next to another asterisk: an italic
\* marker, not half of a bold marker.
SingleStarAt(s, i) ==
    /\ i \in 1..Len(s)
    /\ Char(s, i) = "*"
    /\ (i = 1 \/ Char(s, i - 1) # "*")
    /\ (i = Len(s) \/ Char(s, i + 1) # "*")

\* s holds body between two italic markers.
Italicised(s, body) ==
    \E i \in 1..Len(s) :
        /\ SingleStarAt(s, i)
        /\ i + Len(body) + 1 <= Len(s)
        /\ SubSeq(s, i + 1, i + Len(body)) = body
        /\ SingleStarAt(s, i + Len(body) + 1)

\* s holds no italic marker at all.
NoItalics(s) == \A i \in 1..Len(s) : ~SingleStarAt(s, i)

StartsWith(s, prefix) ==
    Len(prefix) <= Len(s) /\ SubSeq(s, 1, Len(prefix)) = prefix

Contains(s, part) ==
    \E i \in 1..(Len(s) - Len(part) + 1) : SubSeq(s, i, i + Len(part) - 1) = part

\* The tokens of the taxon's scientific name.
NameParts(taxon) == Split(taxon.name, " ")

\* C4: for a rank level at most the genus level the scientific name is
\* wrapped in italic markers in the output (as a whole, or, for a trinomial,
\* its first two parts and its third part); for a rank level above genus it
\* is not italicised; under every combination of the options.
C4_ItalicsIffGenusOrLower ==
    Returned =>
        LET out == ret[1]
            t == args.taxon
            parts == NameParts(t)
        IN  IF RANK_LEVELS[t.rank] <= RANK_LEVELS["genus"]
            THEN \/ Italicised(out, t.name)
                 \/ /\ t.rank \in DOMAIN TRINOMIAL_ABBR
                    /\ Len(parts) = 3
                    /\ Italicised(out, parts[1] \o " " \o parts[2])
                    /\ Italicised(out, parts[3])
            ELSE Contains(out, t.name) /\ NoItalics(out)

\* C4 witness: a genus, in a flat list with its rank, is italicised.
C4_Witness ==
    /\ Returned
    /\ args.taxon.rank = "genus"
    /\ args.with_term
    /\ ret = Some("Genus *z* (ww)")

\* C5: for a rank in TRINOMIAL_ABBR and a name of exactly three
\* space-separated tokens T1 T2 T3 the name is rendered "*T1 T2* ABBR *T3*",
\* ABBR the table's abbreviation for the rank; with any other number of
\* tokens it is rendered as the plain italicised name and no abbreviation
\* is inserted.
C5_TrinomialAbbreviation ==
    (Returned /\ args.taxon.rank \in DOMAIN TRINOMIAL_ABBR) =>
        LET out == ret[1]
            t == args.taxon
            parts == NameParts(t)
            abbr == TRINOMIAL_ABBR[t.rank]
        IN  IF Len(parts) = 3
            THEN StartsWith(out, "*" \o parts[1] \o " " \o parts[2] \o "* "
                                 \o abbr \o " *" \o parts[3] \o "*")
            ELSE /\ StartsWith(out, "*" \o t.name \o "*")
                 /\ ~Contains(out, abbr)

\* C5 witness: an inactive variety with a three-part name and a matched term.
C5_Witness ==
    /\ Returned
    /\ args.taxon.rank = "variety"
    /\ ret = Some("*z qq* var. *z* (ww) ! Inactive Taxon")

-----------------------------------------------------------------------------
(* Properties of format_quality_grade (QualitySpec) *)

\* C6: with verifiable = "false" the call returns exactly the one-element
\* list ["*not Verifiable*"], for every quality_grade: absent, empty, or
\* holding the token "any".
C6_NotVerifiable ==
    (Ended /\ args.verifiable = Some("false"))
        => (Returned /\ ret = Some(<<"*not Verifiable*">>))

\* C6 witness: verifiable = "false" together with "any" in quality_grade.
C6_Witness ==
    /\ Returned
    /\ args.verifiable = Some("false")
    /\ args.quality_grade = Some("any,research,needs_id")

\* C10: the call returns a list of adjectives for every options mapping and
\* never faults on an unassigned research/needs-ID flag; for a quality_grade
\* holding "any" and no verifiable value (absent or empty) the result is the
\* empty list.
C10_NeverFaults ==
    Ended =>
        /\ Returned
        /\ (/\ InSeq("any", GradeTokensOf(args))
            /\ args.verifiable \in {None, Some("")})
                => ret = Some(<< >>)

-----------------------------------------------------------------------------
(* Properties of ObsCountFormatter.description (ObsSpec) *)

\* C7: description is the thousands-grouped, link-wrapped count followed by
\* the noun: "observation" exactly when the count is 1, "observations" for
\* every other count.
C7_CorrectlyPluralized ==
    Returned =>
        ret[1] = ObsLink(args.taxon) \o " "
                 \o (IF args.taxon.observations_count = 1 THEN "observation"
                     ELSE "observations")

\* C7, as the code has it: the noun is "observations" for every count.
C7_AlwaysPlural ==
    Returned =>
        \E n \in 0..MaxCount :
            /\ n = args.taxon.observations_count
            /\ ret[1] = "[" \o Thousands(n) \o "]("
                        \o ObsUrl(args.taxon) \o ") observations"

=============================================================================
